---- MODULE Spec2Model ----
(***************************************************************************)
(* DocxParser (src/src/docx_parser.py): keyword-driven extraction of loan  *)
(* application fields from the text of a DOCX document.                    *)
(*                                                                         *)
(* A Python str is a sequence of characters, each character one TLA+       *)
(* string.  A Vietnamese letter is written as its base letter followed by  *)
(* its marks (VIQR style): ! grave, ' acute, ? hook, ~ tilde, . dot below, *)
(* ^ circumflex, ( breve, + horn; "dd"/"DD" is d with stroke; "U+FF1A" is  *)
(* the full-width colon.  "\n" is the line break.                          *)
(***************************************************************************)
EXTENDS Integers, Sequences, FiniteSets, TLC

VARIABLES
  text_content,  \* self.text_content
  tables,        \* self.tables
  op,            \* the method that returned last, "idle" between calls
  arg,           \* its keywords argument (<<>> for the methods without one)
  ret,           \* its return value
  results        \* what parse_full_document returned so far, oldest first

vars == <<text_content, tables, op, arg, ret, results>>

----------------------------------------------------------------------------
(* Bounds of the model *)

\* paragraphs of a document
MaxParas == 2
\* parse_full_document calls that are recorded
MaxCalls == 2
\* labels of a keyword list that is not one of the program's
MaxKeywords == 2

----------------------------------------------------------------------------
(* Characters *)

LowerMap ==
  "A" :> "a" @@ "B" :> "b" @@ "C" :> "c" @@ "D" :> "d" @@ "DD" :> "dd" @@ "G" :> "g"
  @@ "H" :> "h" @@ "K" :> "k" @@ "L" :> "l" @@ "M" :> "m" @@ "N" :> "n" @@ "P" :> "p"
  @@ "S" :> "s" @@ "T" :> "t" @@ "V" :> "v" @@ "X" :> "x"

\* str.lower() of one character, which is what re.IGNORECASE compares
Lower(c) == IF c \in DOMAIN LowerMap THEN LowerMap[c] ELSE c

\* the characters of the alphabet that the regex class \s (and str.strip) takes
IsSpace(c) == c \in {" ", "\t", "\n"}

\* the regex class [:U+FF1A]
IsColon(c) == c \in {":", "U+FF1A"}

Digits == <<"0", "1", "2", "3", "4", "5", "6", "7", "8", "9">>

\* the regex class \d
IsDigit(c) == \E d \in 1..10 : Digits[d] = c

\* the regex class [\d.,]
IsNumChar(c) == IsDigit(c) \/ c = "." \/ c = ","

\* Python's None, where a str is expected: no character is "None"
None == <<"None">>

\* bool(value) of an Optional[str]
Truthy(value) == value # None /\ value # <<>>

\* value or default
Or(value, default) == IF Truthy(value) THEN value ELSE default

Min(S) == CHOOSE i \in S : \A j \in S : i <= j

----------------------------------------------------------------------------
(* The keyword lists and defaults of the extractors *)

(* lines 80-82: 'Họ và tên', 'Tên khách hàng', 'Khách hàng', 'Họ tên' *)
name_keywords ==
  << <<"H", "o.", " ", "v", "a!", " ", "t", "e^", "n">>,
     <<"T", "e^", "n", " ", "k", "h", "a'", "c", "h", " ", "h", "a!", "n", "g">>,
     <<"K", "h", "a'", "c", "h", " ", "h", "a!", "n", "g">>,
     <<"H", "o.", " ", "t", "e^", "n">> >>

(* lines 83-85: 'CCCD', 'CMND', 'Số CCCD', 'Số CMND', 'Chứng minh nhân dân' *)
cccd_keywords ==
  << <<"C", "C", "C", "D">>,
     <<"C", "M", "N", "D">>,
     <<"S", "o^'", " ", "C", "C", "C", "D">>,
     <<"S", "o^'", " ", "C", "M", "N", "D">>,
     <<"C", "h", "u+'", "n", "g", " ", "m", "i", "n", "h", " ", "n", "h", "a^", "n", " ", "d", "a^", "n">> >>

(* lines 86-88: 'Địa chỉ', 'Địa chỉ thường trú', 'Nơi cư trú', 'Chỗ ở' *)
address_keywords ==
  << <<"DD", "i.", "a", " ", "c", "h", "i?">>,
     <<"DD", "i.", "a", " ", "c", "h", "i?", " ", "t", "h", "u+", "o+!", "n", "g", " ", "t", "r", "u'">>,
     <<"N", "o+", "i", " ", "c", "u+", " ", "t", "r", "u'">>,
     <<"C", "h", "o^~", " ", "o+?">> >>

(* lines 89-91: 'Số điện thoại', 'Điện thoại', 'SĐT', 'Phone' *)
phone_keywords ==
  << <<"S", "o^'", " ", "dd", "i", "e.^", "n", " ", "t", "h", "o", "a.", "i">>,
     <<"DD", "i", "e.^", "n", " ", "t", "h", "o", "a.", "i">>,
     <<"S", "DD", "T">>,
     <<"P", "h", "o", "n", "e">> >>

(* lines 98-101: 'Mục đích vay', 'Mục đích sử dụng vốn', 'Mục đích', 'Vay để', 'Sử dụng vốn để' *)
purpose_keywords ==
  << <<"M", "u.", "c", " ", "dd", "i'", "c", "h", " ", "v", "a", "y">>,
     <<"M", "u.", "c", " ", "dd", "i'", "c", "h", " ", "s", "u+?", " ", "d", "u.", "n", "g", " ", "v", "o^'", "n">>,
     <<"M", "u.", "c", " ", "dd", "i'", "c", "h">>,
     <<"V", "a", "y", " ", "dd", "e^?">>,
     <<"S", "u+?", " ", "d", "u.", "n", "g", " ", "v", "o^'", "n", " ", "dd", "e^?">> >>

(* lines 104-107: 'Tổng nhu cầu vốn', 'Nhu cầu vốn', 'Tổng vốn cần', 'Tổng mức đầu tư', 'Vốn đầu tư' *)
total_need_keywords ==
  << <<"T", "o^?", "n", "g", " ", "n", "h", "u", " ", "c", "a^!", "u", " ", "v", "o^'", "n">>,
     <<"N", "h", "u", " ", "c", "a^!", "u", " ", "v", "o^'", "n">>,
     <<"T", "o^?", "n", "g", " ", "v", "o^'", "n", " ", "c", "a^!", "n">>,
     <<"T", "o^?", "n", "g", " ", "m", "u+'", "c", " ", "dd", "a^!", "u", " ", "t", "u+">>,
     <<"V", "o^'", "n", " ", "dd", "a^!", "u", " ", "t", "u+">> >>

(* lines 109-112: 'Vốn đối ứng', 'Vốn tự có', 'Nguồn vốn tự có', 'Vốn chủ sở hữu' *)
equity_keywords ==
  << <<"V", "o^'", "n", " ", "dd", "o^'", "i", " ", "u+'", "n", "g">>,
     <<"V", "o^'", "n", " ", "t", "u+.", " ", "c", "o'">>,
     <<"N", "g", "u", "o^!", "n", " ", "v", "o^'", "n", " ", "t", "u+.", " ", "c", "o'">>,
     <<"V", "o^'", "n", " ", "c", "h", "u?", " ", "s", "o+?", " ", "h", "u+~", "u">> >>

(* lines 114-116: 'Số tiền vay', 'Vốn vay', 'Hạn mức vay', 'Dư nợ vay' *)
loan_amount_keywords ==
  << <<"S", "o^'", " ", "t", "i", "e^!", "n", " ", "v", "a", "y">>,
     <<"V", "o^'", "n", " ", "v", "a", "y">>,
     <<"H", "a.", "n", " ", "m", "u+'", "c", " ", "v", "a", "y">>,
     <<"D", "u+", " ", "n", "o+.", " ", "v", "a", "y">> >>

(* lines 122-124: 'Lãi suất', 'Lãi suất vay', 'Lãi suất cho vay', 'LS' *)
interest_rate_keywords ==
  << <<"L", "a~", "i", " ", "s", "u", "a^'", "t">>,
     <<"L", "a~", "i", " ", "s", "u", "a^'", "t", " ", "v", "a", "y">>,
     <<"L", "a~", "i", " ", "s", "u", "a^'", "t", " ", "c", "h", "o", " ", "v", "a", "y">>,
     <<"L", "S">> >>

(* lines 130-132: 'Thời gian vay', 'Thời hạn vay', 'Kỳ hạn', 'Thời hạn' *)
loan_term_keywords ==
  << <<"T", "h", "o+!", "i", " ", "g", "i", "a", "n", " ", "v", "a", "y">>,
     <<"T", "h", "o+!", "i", " ", "h", "a.", "n", " ", "v", "a", "y">>,
     <<"K", "y!", " ", "h", "a.", "n">>,
     <<"T", "h", "o+!", "i", " ", "h", "a.", "n">> >>

(* lines 152-154: 'Loại tài sản', 'Tài sản', 'TSBĐ', 'Loại TSBĐ' *)
asset_type_keywords ==
  << <<"L", "o", "a.", "i", " ", "t", "a!", "i", " ", "s", "a?", "n">>,
     <<"T", "a!", "i", " ", "s", "a?", "n">>,
     <<"T", "S", "B", "DD">>,
     <<"L", "o", "a.", "i", " ", "T", "S", "B", "DD">> >>

(* lines 156-159: 'Giá trị thị trường', 'Giá thị trường', 'Giá trị', 'Trị giá tài sản' *)
market_value_keywords ==
  << <<"G", "i", "a'", " ", "t", "r", "i.", " ", "t", "h", "i.", " ", "t", "r", "u+", "o+!", "n", "g">>,
     <<"G", "i", "a'", " ", "t", "h", "i.", " ", "t", "r", "u+", "o+!", "n", "g">>,
     <<"G", "i", "a'", " ", "t", "r", "i.">>,
     <<"T", "r", "i.", " ", "g", "i", "a'", " ", "t", "a!", "i", " ", "s", "a?", "n">> >>

(* lines 161-163: 'Địa chỉ tài sản', 'Vị trí', 'Địa điểm', 'Tọa lạc tại' *)
asset_address_keywords ==
  << <<"DD", "i.", "a", " ", "c", "h", "i?", " ", "t", "a!", "i", " ", "s", "a?", "n">>,
     <<"V", "i.", " ", "t", "r", "i'">>,
     <<"DD", "i.", "a", " ", "dd", "i", "e^?", "m">>,
     <<"T", "o.", "a", " ", "l", "a.", "c", " ", "t", "a.", "i">> >>

(* lines 165-167: 'LTV', 'Tỷ lệ cho vay', 'Tỷ lệ LTV' *)
ltv_keywords ==
  << <<"L", "T", "V">>,
     <<"T", "y?", " ", "l", "e.^", " ", "c", "h", "o", " ", "v", "a", "y">>,
     <<"T", "y?", " ", "l", "e.^", " ", "L", "T", "V">> >>

(* lines 172-174: 'Giấy tờ pháp lý', 'Pháp lý', 'Giấy tờ', 'Sổ đỏ' *)
legal_docs_keywords ==
  << <<"G", "i", "a^'", "y", " ", "t", "o+!", " ", "p", "h", "a'", "p", " ", "l", "y'">>,
     <<"P", "h", "a'", "p", " ", "l", "y'">>,
     <<"G", "i", "a^'", "y", " ", "t", "o+!">>,
     <<"S", "o^?", " ", "dd", "o?">> >>

(* lines 187-189: 'Thu nhập tháng', 'Thu nhập hàng tháng', 'Doanh thu tháng' *)
monthly_income_keywords ==
  << <<"T", "h", "u", " ", "n", "h", "a.^", "p", " ", "t", "h", "a'", "n", "g">>,
     <<"T", "h", "u", " ", "n", "h", "a.^", "p", " ", "h", "a!", "n", "g", " ", "t", "h", "a'", "n", "g">>,
     <<"D", "o", "a", "n", "h", " ", "t", "h", "u", " ", "t", "h", "a'", "n", "g">> >>

(* lines 191-193: 'Chi phí tháng', 'Chi phí hàng tháng', 'Chi phí' *)
monthly_expense_keywords ==
  << <<"C", "h", "i", " ", "p", "h", "i'", " ", "t", "h", "a'", "n", "g">>,
     <<"C", "h", "i", " ", "p", "h", "i'", " ", "h", "a!", "n", "g", " ", "t", "h", "a'", "n", "g">>,
     <<"C", "h", "i", " ", "p", "h", "i'">> >>

(* lines 195-197: 'Nợ khác', 'Công nợ khác', 'Nghĩa vụ nợ khác' *)
other_debt_keywords ==
  << <<"N", "o+.", " ", "k", "h", "a'", "c">>,
     <<"C", "o^", "n", "g", " ", "n", "o+.", " ", "k", "h", "a'", "c">>,
     <<"N", "g", "h", "i~", "a", " ", "v", "u.", " ", "n", "o+.", " ", "k", "h", "a'", "c">> >>

(* line 101: 'Kinh doanh' *)
DefaultPurpose == <<"K", "i", "n", "h", " ", "d", "o", "a", "n", "h">>
(* line 154: 'Bất động sản' *)
DefaultAssetType == <<"B", "a^'", "t", " ", "dd", "o.^", "n", "g", " ", "s", "a?", "n">>
(* line 174: 'Sổ đỏ/Giấy chứng nhận quyền sử dụng đất' *)
DefaultLegalDocs == <<"S", "o^?", " ", "dd", "o?", "/", "G", "i", "a^'", "y", " ", "c", "h", "u+'", "n", "g", " ", "n", "h", "a.^", "n", " ", "q", "u", "y", "e^!", "n", " ", "s", "u+?", " ", "d", "u.", "n", "g", " ", "dd", "a^'", "t">>
(* line 146: 'Tháng' *)
PaymentFrequency == <<"T", "h", "a'", "n", "g">>

\* line 128: 8.5
DefaultInterestRate == [m |-> 85, e |-> 1]

\* line 136
DefaultLoanTerm == 120

\* line 170: 70.0
DefaultLtv == [m |-> 70, e |-> 0]

----------------------------------------------------------------------------
(* src.utils.clean_text: leading and trailing whitespace removed, runs of  *)
(* whitespace inside collapsed to one space (spec.md 4.1).                 *)

RECURSIVE SpaceRun(_, _)
\* how many whitespace characters s holds from position j on (a greedy \s*)
SpaceRun(s, j) ==
  IF j <= Len(s) /\ IsSpace(s[j]) THEN 1 + SpaceRun(s, j + 1) ELSE 0

RECURSIVE CollapseFrom(_, _)
\* s from position i on, i at a non-space character or past the end
CollapseFrom(s, i) ==
  IF i > Len(s) THEN <<>>
  ELSE IF IsSpace(s[i])
       THEN LET n == i + SpaceRun(s, i)
            IN  IF n > Len(s) THEN <<>> ELSE <<" ">> \o CollapseFrom(s, n)
       ELSE <<s[i]>> \o CollapseFrom(s, i + 1)

clean_text(s) == CollapseFrom(s, 1 + SpaceRun(s, 1))

----------------------------------------------------------------------------
(* re.search(rf"{keyword}\s*[:U+FF1A]?\s*(.+?)(?:\n|$)", text, IGNORECASE) *)
(* as the backtracking matcher runs it.  No keyword of the program holds a *)
(* regex metacharacter, so a keyword matches itself, letter case aside.    *)

\* the keyword, letter case ignored, at position i of text
KeywordAt(keyword, text, i) ==
  /\ i + Len(keyword) - 1 <= Len(text)
  /\ \A k \in 1..Len(keyword) : Lower(text[i + k - 1]) = Lower(keyword[k])

RECURSIVE LineEnd(_, _)
\* where (.+?)(?:\n|$) ends a group that starts at p: the first line break
\* from p on, or the end of text ('.' takes no "\n", '$' is the end)
LineEnd(text, p) ==
  IF p > Len(text) \/ text[p] = "\n" THEN p ELSE LineEnd(text, p + 1)

RECURSIVE TrySpace2(_, _, _)
\* the second \s* from q, holding b characters, then (.+?): the start of
\* group 1, or 0 when no b' <= b leaves a character that '.' takes
TrySpace2(text, q, b) ==
  IF q + b <= Len(text) /\ text[q + b] # "\n" THEN q + b
  ELSE IF b = 0 THEN 0 ELSE TrySpace2(text, q, b - 1)

\* [:U+FF1A]? at q, the colon taken first and given back on failure
TryColon(text, q) ==
  LET taken == IF q <= Len(text) /\ IsColon(text[q])
               THEN TrySpace2(text, q + 1, SpaceRun(text, q + 1))
               ELSE 0
  IN  IF taken # 0 THEN taken ELSE TrySpace2(text, q, SpaceRun(text, q))

RECURSIVE TrySpace1(_, _, _)
\* the first \s* from j, holding a characters, given back one at a time
TrySpace1(text, j, a) ==
  LET p == TryColon(text, j + a)
  IN  IF p # 0 THEN p
      ELSE IF a = 0 THEN 0 ELSE TrySpace1(text, j, a - 1)

\* the regex tried at position i: the start of group 1, 0 for no match
MatchAt(keyword, text, i) ==
  IF KeywordAt(keyword, text, i)
  THEN TrySpace1(text, i + Len(keyword), SpaceRun(text, i + Len(keyword)))
  ELSE 0

\* the match object of a match that starts at i, with group 1 from p to the
\* end of its line: match.start() and match.group(1)
Match(text, i, p) ==
  [matched |-> TRUE, start |-> i, group1 |-> SubSeq(text, p, LineEnd(text, p) - 1)]

\* re.search returned None
NoMatch == [matched |-> FALSE, start |-> 0, group1 |-> <<>>]

\* the match at the leftmost of the positions where the regex matches
Leftmost(keyword, text, i) == Match(text, i, MatchAt(keyword, text, i))

\* the positions of text where the regex matches
Hits(keyword, text) == {i \in 1..Len(text) : MatchAt(keyword, text, i) # 0}

\* re.search scans text from the left and returns the first match
FirstOf(keyword, text, hits) ==
  IF hits = {} THEN NoMatch ELSE Leftmost(keyword, text, Min(hits))

re_search(keyword, text) == FirstOf(keyword, text, Hits(keyword, text))

----------------------------------------------------------------------------
(* DocxParser *)

\* the parser object
Self == [text_content |-> text_content, tables |-> tables]

RECURSIVE FindFrom(_, _, _)
\* the loop of _find_value_after_keyword from the k-th keyword on; pattern is
\* None in every call of the program
FindFrom(self, keywords, k) ==
  IF k > Len(keywords) THEN None
  ELSE IF Hits(keywords[k], self.text_content) # {}
       THEN clean_text(re_search(keywords[k], self.text_content).group1)
       ELSE FindFrom(self, keywords, k + 1)

\* faulty variant: the keyword whose match comes first in the text wins,
\* whatever its place in the list
FindEarliestInText(self, keywords) ==
  LET found == {k \in DOMAIN keywords : Hits(keywords[k], self.text_content) # {}}
      first == CHOOSE k \in found : \A j \in found :
                 \/ Min(Hits(keywords[k], self.text_content))
                      < Min(Hits(keywords[j], self.text_content))
                 \/ /\ Min(Hits(keywords[k], self.text_content))
                         = Min(Hits(keywords[j], self.text_content))
                    /\ k <= j
  IN  IF found = {} THEN None
      ELSE clean_text(re_search(keywords[first], self.text_content).group1)

\* faulty variant: the longest keyword that matches wins
FindLongestFirst(self, keywords) ==
  LET found == {k \in DOMAIN keywords : Hits(keywords[k], self.text_content) # {}}
      first == CHOOSE k \in found : \A j \in found :
                 \/ Len(keywords[k]) > Len(keywords[j])
                 \/ Len(keywords[k]) = Len(keywords[j]) /\ k <= j
  IN  IF found = {} THEN None
      ELSE clean_text(re_search(keywords[first], self.text_content).group1)

_find_value_after_keyword(self, keywords) == FindFrom(self, keywords, 1)

----------------------------------------------------------------------------
(* Numbers.  A Python float is modelled by the decimal fraction it stands  *)
(* for, m / 10^e with no trailing zero in m when e > 0, so that equal      *)
(* numbers are equal records; comparison, subtraction and int() are exact  *)
(* on the documents of the model.                                          *)

RECURSIVE Pow10(_)
Pow10(n) == IF n = 0 THEN 1 ELSE 10 * Pow10(n - 1)

RECURSIVE Norm(_, _)
Norm(m, e) ==
  IF e > 0 /\ m % 10 = 0 THEN Norm(m \div 10, e - 1) ELSE [m |-> m, e |-> e]

\* the float of an integer literal
Num(n) == [m |-> n, e |-> 0]

\* 0.0
Zero == Num(0)

\* x == 0
IsZero(x) == x.m = 0

\* x > 0
Positive(x) == x.m > 0

\* x - y
Sub(x, y) ==
  LET e == IF x.e > y.e THEN x.e ELSE y.e
  IN  Norm(x.m * Pow10(e - x.e) - y.m * Pow10(e - y.e), e)

\* int(x): truncation towards zero
int(x) ==
  IF x.m >= 0 THEN x.m \div Pow10(x.e) ELSE 0 - ((0 - x.m) \div Pow10(x.e))

\* equity / total_need * 100, kept as the quotient it is
Percent(x, y) == [percent_of |-> x, over |-> y]

----------------------------------------------------------------------------
(* src.utils.parse_number (spec.md 4.2): with both '.' and ',' the one     *)
(* that comes last is the decimal separator; with one kind only, exactly   *)
(* three digits after its last occurrence make it a thousands separator,   *)
(* anything else the decimal separator; no digit, or more than one decimal *)
(* separator, gives 0.                                                     *)

DigitValue(c) == (CHOOSE d \in 1..10 : Digits[d] = c) - 1

RECURSIVE ToInt(_, _)
\* the decimal number written by the first n of the digits
ToInt(digits, n) ==
  IF n = 0 THEN 0 ELSE 10 * ToInt(digits, n - 1) + DigitValue(digits[n])

Max(S) == CHOOSE i \in S : \A j \in S : i >= j

\* the decimal separator of s, "none" when s has none
DecimalSeparator(s) ==
  LET dots   == {i \in DOMAIN s : s[i] = "."}
      commas == {i \in DOMAIN s : s[i] = ","}
  IN  IF dots # {} /\ commas # {}
      THEN IF Max(dots) > Max(commas) THEN "." ELSE ","
      ELSE IF dots = {} /\ commas = {} THEN "none"
      ELSE IF Len(s) - Max(dots \cup commas) = 3 THEN "none"
      ELSE IF dots # {} THEN "." ELSE ","

parse_number(s) ==
  LET dec    == DecimalSeparator(s)
      kept   == SelectSeq(s, LAMBDA c : IsDigit(c) \/ c = dec)
      points == {i \in DOMAIN kept : kept[i] = dec}
      digits == SelectSeq(kept, IsDigit)
  IN  IF digits = <<>> \/ Cardinality(points) > 1 THEN Zero
      ELSE Norm(ToInt(digits, Len(digits)),
                IF points = {} THEN 0 ELSE Len(kept) - Min(points))

----------------------------------------------------------------------------
(* DocxParser._find_number_after_keyword *)

RECURSIVE NumRun(_, _)
\* how many characters of [\d.,] value holds from position i on
NumRun(value, i) ==
  IF i <= Len(value) /\ IsNumChar(value[i]) THEN 1 + NumRun(value, i + 1) ELSE 0

\* re.findall(r'[\d.,]+', value)[0], <<>> when findall returns []
FirstNumber(value) ==
  LET starts == {i \in DOMAIN value : IsNumChar(value[i])}
  IN  IF starts = {} THEN <<>>
      ELSE SubSeq(value, Min(starts), Min(starts) + NumRun(value, Min(starts)) - 1)

RECURSIVE LastRunStart(_, _)
\* where the run of [\d.,] that ends at i starts
LastRunStart(value, i) ==
  IF i > 1 /\ IsNumChar(value[i - 1]) THEN LastRunStart(value, i - 1) ELSE i

\* faulty variant: the last run of [\d.,] is parsed, numbers[-1]
NumberInLastRun(value) ==
  LET ends == {i \in DOMAIN value : IsNumChar(value[i])}
  IN  IF Truthy(value) /\ ends # {}
      THEN parse_number(SubSeq(value, LastRunStart(value, Max(ends)), Max(ends)))
      ELSE Zero

\* lines 70-75: the number in the value that was found
NumberIn(value) ==
  IF Truthy(value) /\ FirstNumber(value) # <<>>
  THEN parse_number(FirstNumber(value))
  ELSE Zero

_find_number_after_keyword(self, keywords) ==
  NumberIn(_find_value_after_keyword(self, keywords))

----------------------------------------------------------------------------
(* The extractors *)

\* faulty variant: a phone number not found in the text is read from the
\* first table
CustomerInfoWithTables(self) ==
  [name    |-> Or(_find_value_after_keyword(self, name_keywords), <<>>),
   cccd    |-> Or(_find_value_after_keyword(self, cccd_keywords), <<>>),
   address |-> Or(_find_value_after_keyword(self, address_keywords), <<>>),
   phone   |-> Or(_find_value_after_keyword(self, phone_keywords),
                  IF self.tables # <<>> THEN self.tables[1][1][2] ELSE <<>>)]

extract_customer_info(self) ==
  [name    |-> Or(_find_value_after_keyword(self, name_keywords), <<>>),
   cccd    |-> Or(_find_value_after_keyword(self, cccd_keywords), <<>>),
   address |-> Or(_find_value_after_keyword(self, address_keywords), <<>>),
   phone   |-> Or(_find_value_after_keyword(self, phone_keywords), <<>>)]

\* faulty variant: derived whenever no loan amount was found
DeriveWheneverZero(loan_amount, total_need, equity) ==
  IF IsZero(loan_amount) THEN Sub(total_need, equity) ELSE loan_amount

\* lines 119-120: the loan amount derived when none was found
DeriveLoanAmount(loan_amount, total_need, equity) ==
  IF IsZero(loan_amount) /\ Positive(total_need)
  THEN Sub(total_need, equity)
  ELSE loan_amount

\* faulty variant: no default
InterestRateAsFound(interest_rate) == interest_rate

\* lines 127-128
DefaultedInterestRate(interest_rate) ==
  IF IsZero(interest_rate) THEN DefaultInterestRate ELSE interest_rate

\* lines 135-136
DefaultedLoanTerm(loan_term) ==
  IF IsZero(loan_term) THEN Num(DefaultLoanTerm) ELSE loan_term

\* lines 138-147: the record returned, from the values looked up
LoanInfo(purpose, total_need, equity, loan_amount, interest_rate, loan_term) ==
  [purpose           |-> purpose,
   total_need        |-> total_need,
   equity            |-> equity,
   loan_amount       |-> DeriveLoanAmount(loan_amount, total_need, equity),
   equity_ratio      |-> IF Positive(total_need) THEN Percent(equity, total_need)
                         ELSE Zero,
   interest_rate     |-> DefaultedInterestRate(interest_rate),
   loan_term         |-> int(DefaultedLoanTerm(loan_term)),
   payment_frequency |-> PaymentFrequency]

extract_loan_info(self) ==
  LoanInfo(Or(_find_value_after_keyword(self, purpose_keywords), DefaultPurpose),
           _find_number_after_keyword(self, total_need_keywords),
           _find_number_after_keyword(self, equity_keywords),
           _find_number_after_keyword(self, loan_amount_keywords),
           _find_number_after_keyword(self, interest_rate_keywords),
           _find_number_after_keyword(self, loan_term_keywords))

\* faulty variant: no default
LtvAsFound(ltv) == ltv

\* lines 169-170
DefaultedLtv(ltv) == IF IsZero(ltv) THEN DefaultLtv ELSE ltv

extract_collateral_info(self) ==
  [asset_type    |-> Or(_find_value_after_keyword(self, asset_type_keywords),
                        DefaultAssetType),
   market_value  |-> _find_number_after_keyword(self, market_value_keywords),
   asset_address |-> Or(_find_value_after_keyword(self, asset_address_keywords), <<>>),
   ltv           |-> DefaultedLtv(_find_number_after_keyword(self, ltv_keywords)),
   legal_docs    |-> Or(_find_value_after_keyword(self, legal_docs_keywords),
                        DefaultLegalDocs)]

extract_financial_info(self) ==
  [monthly_income  |-> _find_number_after_keyword(self, monthly_income_keywords),
   monthly_expense |-> _find_number_after_keyword(self, monthly_expense_keywords),
   other_debt      |-> _find_number_after_keyword(self, other_debt_keywords)]

parse_full_document(self) ==
  [customer_info   |-> extract_customer_info(self),
   loan_info       |-> extract_loan_info(self),
   collateral_info |-> extract_collateral_info(self),
   financial_info  |-> extract_financial_info(self),
   raw_text        |-> self.text_content]

----------------------------------------------------------------------------
(* The documents *)

Paragraphs ==
  << <<"X", "i", "n", " ", "c", "h", "a!", "o">>,  (* Xin chào *)
     <<"H", "o.", " ", "v", "a!", " ", "t", "e^", "n", ":", " ", "A", "n">>,  (* Họ và tên: An *)
     <<"T", "o^?", "n", "g", " ", "n", "h", "u", " ", "c", "a^!", "u", " ", "v", "o^'", "n", ":", " ", "1", ".", "0", "0", "0", ".", "0", "0", "0", ".", "0", "0", "0">>,  (* Tổng nhu cầu vốn: 1.000.000.000 *)
     <<"V", "o^'", "n", " ", "dd", "o^'", "i", " ", "u+'", "n", "g", ":", " ", "2", "0", "0", ".", "0", "0", "0", ".", "0", "0", "0">>,  (* Vốn đối ứng: 200.000.000 *)
     <<"S", "o^'", " ", "t", "i", "e^!", "n", " ", "v", "a", "y", ":", " ", "5", "0", "0", ".", "0", "0", "0", ".", "0", "0", "0", " ", "dd", "o^!", "n", "g">>,  (* Số tiền vay: 500.000.000 đồng *)
     <<"T", "h", "o+!", "i", " ", "h", "a.", "n", " ", "v", "a", "y", ":", " ", "0", ",", "5", " ", "n", "a(", "m">> >>  (* Thời hạn vay: 0,5 năm *)

LocateParagraphs ==
  << <<"H", "o.", " ", "v", "a!", " ", "t", "e^", "n", ":">>,  (* Họ và tên: *)
     <<"M", "u.", "c", " ", "dd", "i'", "c", "h", "U+FF1A", " ", "M", "u", "a", " ", "n", "h", "a!">>,  (* Mục đích： Mua nhà *)
     <<"V", "a", "y", " ", "dd", "e^?", " ", "m", "u", "a", " ", "x", "e">>,  (* Vay để mua xe *)
     <<"S", "o^'", " ", "c", "c", "c", "d", ":", " ", "0", "1", "2">>,  (* Số cccd: 012 *)
     <<"C", "C", "C", "D", " ", "0", "3", "4", "/", "2", "1">>,  (* CCCD 034/21 *)
     <<"DD", "i.", "a", " ", "c", "h", "i?", ":", " ", "V", "i", "n", "h">>,  (* Địa chỉ: Vinh *)
     <<"DD", "i.", "a", " ", "c", "h", "i?", " ", "t", "h", "u+", "o+!", "n", "g", " ", "t", "r", "u'", ":", " ", "H", "u", "e^'">>,  (* Địa chỉ thường trú: Huế *)
     <<"L", "a~", "i", " ", "s", "u", "a^'", "t", " ", "v", "a", "y", " ", "9", ",", "5", "%">> >>  (* Lãi suất vay 9,5% *)

Labels ==
  { <<"V", "a", "y", " ", "dd", "e^?">>,  (* Vay để *)
    <<"C", "C", "C", "D">>,  (* CCCD *)
    <<"S", "o^'", " ", "C", "C", "C", "D">> }  (* Số CCCD *)

Cell1 == <<"P", "h", "o", "n", "e">>
Cell2 == <<"0", "9", "1", "2">>
Cell3 == <<"L", "T", "V">>
Cell4 == <<"5", "0">>

RECURSIVE Join(_)
\* "\n".join(full_text)
Join(paras) ==
  IF paras = <<>> THEN <<>>
  ELSE IF Len(paras) = 1 THEN paras[1]
  ELSE paras[1] \o <<"\n">> \o Join(Tail(paras))

\* _extract_all_text over the documents of at most MaxParas paragraphs drawn
\* from pool: the stripped, non-empty paragraphs, one per line
Texts(pool) ==
  { Join([k \in DOMAIN ix |-> pool[ix[k]]]) :
      ix \in UNION { [1..n -> 1..Len(pool)] : n \in 0..MaxParas } }

\* _extract_tables: a list of tables, each a list of rows of cell texts
TableSets ==
  { <<>>,
    << << <<Cell1, Cell2>>, <<Cell3, Cell4>> >>, << <<Cell4>> >> >> }

\* the keyword lists of the program
ProgramLists ==
  { name_keywords, cccd_keywords, address_keywords, phone_keywords,
    purpose_keywords, total_need_keywords, equity_keywords,
    loan_amount_keywords, interest_rate_keywords, loan_term_keywords,
    asset_type_keywords, market_value_keywords, asset_address_keywords,
    ltv_keywords, legal_docs_keywords, monthly_income_keywords,
    monthly_expense_keywords, other_debt_keywords }

\* the lists of at most MaxKeywords distinct labels of Labels, in every order
OrderedLists ==
  { ix \in UNION { [1..n -> Labels] : n \in 1..MaxKeywords } :
      \A i, j \in DOMAIN ix : i # j => ix[i] # ix[j] }

KeywordLists == ProgramLists \cup OrderedLists

----------------------------------------------------------------------------
(* The state machine: a parser built from a document, then any sequence of *)
(* calls of its methods.                                                   *)

\* __init__ has run
Constructed(pool) ==
  /\ text_content \in Texts(pool)
  /\ tables \in TableSets
  /\ op = "idle"
  /\ arg = <<>>
  /\ ret = <<>>
  /\ results = <<>>

Init == Constructed(Paragraphs)

InitLocate == Constructed(LocateParagraphs)

FindValue ==
  /\ op = "idle"
  /\ \E keywords \in KeywordLists :
       /\ op' = "_find_value_after_keyword"
       /\ arg' = keywords
       /\ ret' = _find_value_after_keyword(Self, keywords)
  /\ UNCHANGED <<text_content, tables, results>>

FindNumber ==
  /\ op = "idle"
  /\ \E keywords \in KeywordLists :
       /\ op' = "_find_number_after_keyword"
       /\ arg' = keywords
       /\ ret' = _find_number_after_keyword(Self, keywords)
  /\ UNCHANGED <<text_content, tables, results>>

ExtractCustomerInfo ==
  /\ op = "idle"
  /\ op' = "extract_customer_info"
  /\ ret' = extract_customer_info(Self)
  /\ UNCHANGED <<text_content, tables, arg, results>>

ExtractLoanInfo ==
  /\ op = "idle"
  /\ op' = "extract_loan_info"
  /\ ret' = extract_loan_info(Self)
  /\ UNCHANGED <<text_content, tables, arg, results>>

ExtractCollateralInfo ==
  /\ op = "idle"
  /\ op' = "extract_collateral_info"
  /\ ret' = extract_collateral_info(Self)
  /\ UNCHANGED <<text_content, tables, arg, results>>

ExtractFinancialInfo ==
  /\ op = "idle"
  /\ op' = "extract_financial_info"
  /\ ret' = extract_financial_info(Self)
  /\ UNCHANGED <<text_content, tables, arg, results>>

\* faulty variant: the parser drops the text it has parsed
ParseAndConsume ==
  /\ op = "idle"
  /\ Len(results) < MaxCalls
  /\ op' = "parse_full_document"
  /\ ret' = parse_full_document(Self)
  /\ results' = Append(results, ret')
  /\ text_content' = <<>>
  /\ UNCHANGED <<tables, arg>>

ParseFullDocument ==
  /\ op = "idle"
  /\ Len(results) < MaxCalls
  /\ op' = "parse_full_document"
  /\ ret' = parse_full_document(Self)
  /\ results' = Append(results, ret')
  /\ UNCHANGED <<text_content, tables, arg>>

\* the caller takes the value; the parser is ready for the next call
Return ==
  /\ op # "idle"
  /\ op' = "idle"
  /\ arg' = <<>>
  /\ ret' = <<>>
  /\ UNCHANGED <<text_content, tables, results>>

Next ==
  \/ ExtractCustomerInfo
  \/ ExtractLoanInfo
  \/ ExtractCollateralInfo
  \/ ExtractFinancialInfo
  \/ ParseFullDocument
  \/ Return

Spec == Init /\ [][Next]_vars

NextLocate == FindValue \/ FindNumber \/ Return

SpecLocate == InitLocate /\ [][NextLocate]_vars

----------------------------------------------------------------------------
(* What the claims speak of *)

\* the parser with other tables
WithTables(tb) == [text_content |-> text_content, tables |-> tb]

\* the keyword is in text, letter case aside
Occurs(keyword, text) == \E i \in 1..Len(text) : KeywordAt(keyword, text, i)

\* none of the keywords is in the document
Absent(keywords) ==
  \A k \in DOMAIN keywords : ~Occurs(keywords[k], text_content)

\* where the keyword is first in text, letter case aside
FirstOccurrence(keyword, text) ==
  Min({i \in 1..Len(text) : KeywordAt(keyword, text, i)})

\* the cleaned value that follows the occurrence of the keyword at i
ValueAt(keyword, text, i) ==
  clean_text(Match(text, i, MatchAt(keyword, text, i)).group1)

\* the first keyword of the list, in list order, that matches in text
Winner(keywords, text) ==
  Min({k \in DOMAIN keywords : Hits(keywords[k], text) # {}})

\* p is at the start of s, letter case aside
IsPrefixIgnoreCase(p, s) ==
  /\ Len(p) <= Len(s)
  /\ \A i \in DOMAIN p : Lower(p[i]) = Lower(s[i])

\* how far into the longer label the shorter one is found
Inside(short, long) ==
  {o \in 0..(Len(long) - Len(short)) : KeywordAt(short, long, o + 1)}

\* what the longer label holds after the shorter one
RestOf(short, long) ==
  SubSeq(long, Min(Inside(short, long)) + Len(short) + 1, Len(long))

\* the cleaned text between a label that ends before j and the end of the
\* label's line, and that text without the colon it starts with: the colon
\* is optional, and the regex may leave it to the value
RestOfLine(text, j) ==
  LET seg == clean_text(SubSeq(text, j, LineEnd(text, j) - 1))
  IN  {seg} \cup IF seg # <<>> /\ IsColon(seg[1]) THEN {clean_text(Tail(seg))}
                 ELSE {}

----------------------------------------------------------------------------
(* C1: _find_value_after_keyword returns the cleaned value of the first    *)
(* occurrence in the text of the earliest keyword, in list order, that     *)
(* matches anywhere in the text, wherever a later keyword's line is; it    *)
(* returns None exactly when no keyword matches.                           *)
C1_FirstKeywordFirstOccurrence ==
  op = "_find_value_after_keyword" =>
    /\ (ret = None) <=> (\A k \in DOMAIN arg : Hits(arg[k], text_content) = {})
    /\ \A k \in DOMAIN arg :
         ( /\ Hits(arg[k], text_content) # {}
           /\ \A j \in 1..(k - 1) : Hits(arg[j], text_content) = {} )
         => ret = ValueAt(arg[k], text_content,
                          FirstOccurrence(arg[k], text_content))

\* the first keyword occurs twice and the second keyword matches above it
C1_Witness ==
  /\ op = "_find_value_after_keyword"
  /\ Len(arg) >= 2
  /\ Cardinality(Hits(arg[1], text_content)) >= 2
  /\ Hits(arg[2], text_content) # {}
  /\ Min(Hits(arg[2], text_content)) < Min(Hits(arg[1], text_content))
  /\ ret = ValueAt(arg[1], text_content, Min(Hits(arg[1], text_content)))

(* C8: a value that _find_value_after_keyword returns is the text between  *)
(* the matched label, with its optional colon, and the end of the label's  *)
(* line; it holds nothing of a following line.                             *)
C8_ValueOnLabelLine ==
  (op = "_find_value_after_keyword" /\ ret # None) =>
    ret \in RestOfLine(text_content,
                     Min(Hits(arg[Winner(arg, text_content)], text_content))
                       + Len(arg[Winner(arg, text_content)]))

(* C9: _find_number_after_keyword returns parse_number of the first run of *)
(* characters of [0-9.,] in the value found, and 0 when no value was       *)
(* found, the value is empty or it holds no such run.                      *)
C9_NumberOfFirstRun ==
  op = "_find_number_after_keyword" =>
    \E value \in {_find_value_after_keyword(Self, arg)} :
      IF value = None \/ value = <<>>
           \/ \A i \in DOMAIN value : ~IsNumChar(value[i])
      THEN ret = Zero
      ELSE \E a, b \in DOMAIN value :
             /\ a <= b
             /\ \A i \in a..b : IsNumChar(value[i])
             /\ \A i \in 1..(a - 1) : ~IsNumChar(value[i])
             /\ b = Len(value) \/ ~IsNumChar(value[b + 1])
             /\ ret = parse_number(SubSeq(value, a, b))

\* a value was found that holds no digit, point or comma
C9_Witness ==
  /\ op = "_find_number_after_keyword"
  /\ Truthy(_find_value_after_keyword(Self, arg))
  /\ FirstNumber(_find_value_after_keyword(Self, arg)) = <<>>
  /\ ret = Zero

\* a value was found with two runs, and the first one is the number
C9_WitnessTwoRuns ==
  /\ op = "_find_number_after_keyword"
  /\ Truthy(_find_value_after_keyword(Self, arg))
  /\ \E i, j, k \in DOMAIN _find_value_after_keyword(Self, arg) :
       /\ i < j /\ j < k
       /\ IsDigit(_find_value_after_keyword(Self, arg)[i])
       /\ ~IsNumChar(_find_value_after_keyword(Self, arg)[j])
       /\ IsDigit(_find_value_after_keyword(Self, arg)[k])
  /\ ret # Zero

(* C10, as claimed: when a keyword holds an earlier keyword of its list    *)
(* and matches, the earlier keyword matches too, its value is the one      *)
(* returned, and that value starts with the rest of the longer label.      *)
C10_RestOfLabelKept ==
  op = "_find_value_after_keyword" =>
    \A j, k \in DOMAIN arg :
      (j < k /\ Inside(arg[j], arg[k]) # {} /\ Hits(arg[k], text_content) # {})
      => /\ Hits(arg[j], text_content) # {}
         /\ ret = ValueAt(arg[j], text_content, Min(Hits(arg[j], text_content)))
         /\ IsPrefixIgnoreCase(clean_text(RestOf(arg[j], arg[k])), ret)

(* C10, amended: when a keyword holds an earlier keyword of its list and   *)
(* matches, the earlier keyword matches too, so the value returned is that *)
(* of the earlier keyword or of one before it, never the later keyword's;  *)
(* it starts with the rest of the longer label when the earlier keyword is *)
(* the first of the list to match and its first occurrence lies in the     *)
(* first occurrence of the longer label.                                   *)
C10_LongerKeywordShadowed ==
  op = "_find_value_after_keyword" =>
    \A j, k \in DOMAIN arg :
      (j < k /\ Inside(arg[j], arg[k]) # {} /\ Hits(arg[k], text_content) # {})
      => /\ Hits(arg[j], text_content) # {}
         /\ Winner(arg, text_content) <= j
         /\ ret = ValueAt(arg[Winner(arg, text_content)], text_content,
                          Min(Hits(arg[Winner(arg, text_content)], text_content)))
         /\ ( /\ Winner(arg, text_content) = j
              /\ Min(Hits(arg[j], text_content))
                   = Min(Hits(arg[k], text_content)) + Min(Inside(arg[j], arg[k])) )
            => IsPrefixIgnoreCase(clean_text(RestOf(arg[j], arg[k])), ret)

\* the longer label is in the text, and the value keeps the rest of it
C10_Witness ==
  /\ op = "_find_value_after_keyword"
  /\ arg = address_keywords
  /\ Hits(arg[2], text_content) # {}
  /\ Min(Hits(arg[1], text_content)) = Min(Hits(arg[2], text_content))
  /\ RestOf(arg[1], arg[2]) # <<>>
  /\ IsPrefixIgnoreCase(clean_text(RestOf(arg[1], arg[2])), ret)
  /\ ret # ValueAt(arg[2], text_content, Min(Hits(arg[2], text_content)))

----------------------------------------------------------------------------
\* a text field whose keywords are absent: not found, and the default
TextDefault(keywords, field, default) ==
  Absent(keywords) =>
    /\ _find_value_after_keyword(Self, keywords) = None
    /\ field = default

\* a number field whose keywords are absent: 0 looked up, and the default
NumberDefault(keywords, field, default) ==
  Absent(keywords) =>
    /\ _find_number_after_keyword(Self, keywords) = Zero
    /\ field = default

(* C2: a field none of whose keywords occurs in the text is looked up as   *)
(* not found (None, or 0 for a number) and takes its documented default.   *)
C2_AbsentKeywordsGiveDefaults ==
  op = "parse_full_document" =>
    /\ TextDefault(name_keywords, ret.customer_info.name, <<>>)
    /\ TextDefault(cccd_keywords, ret.customer_info.cccd, <<>>)
    /\ TextDefault(address_keywords, ret.customer_info.address, <<>>)
    /\ TextDefault(phone_keywords, ret.customer_info.phone, <<>>)
    /\ TextDefault(purpose_keywords, ret.loan_info.purpose, DefaultPurpose)
    /\ NumberDefault(total_need_keywords, ret.loan_info.total_need, Zero)
    /\ NumberDefault(equity_keywords, ret.loan_info.equity, Zero)
    /\ NumberDefault(interest_rate_keywords, ret.loan_info.interest_rate,
                     DefaultInterestRate)
    /\ NumberDefault(loan_term_keywords, ret.loan_info.loan_term, DefaultLoanTerm)
    /\ TextDefault(asset_type_keywords, ret.collateral_info.asset_type,
                   DefaultAssetType)
    /\ NumberDefault(market_value_keywords, ret.collateral_info.market_value, Zero)
    /\ TextDefault(asset_address_keywords, ret.collateral_info.asset_address, <<>>)
    /\ NumberDefault(ltv_keywords, ret.collateral_info.ltv, DefaultLtv)
    /\ TextDefault(legal_docs_keywords, ret.collateral_info.legal_docs,
                   DefaultLegalDocs)
    /\ NumberDefault(monthly_income_keywords, ret.financial_info.monthly_income, Zero)
    /\ NumberDefault(monthly_expense_keywords, ret.financial_info.monthly_expense, Zero)
    /\ NumberDefault(other_debt_keywords, ret.financial_info.other_debt, Zero)

\* a document with text, some fields found and the interest rate and loan
\* term not mentioned
C2_Witness ==
  /\ op = "parse_full_document"
  /\ ret.customer_info.name # <<>>
  /\ Absent(interest_rate_keywords)
  /\ Absent(loan_term_keywords)
  /\ ret.loan_info.interest_rate = DefaultInterestRate
  /\ ret.loan_info.loan_term = DefaultLoanTerm

\* the numeric fields of the record of an empty document
EmptyNumbers ==
  /\ ret.loan_info.total_need = Zero
  /\ ret.loan_info.equity = Zero
  /\ ret.loan_info.loan_amount = Zero
  /\ ret.loan_info.equity_ratio = Zero
  /\ ret.loan_info.interest_rate = DefaultInterestRate
  /\ ret.loan_info.loan_term = DefaultLoanTerm
  /\ ret.collateral_info.market_value = Zero
  /\ ret.collateral_info.ltv = DefaultLtv
  /\ ret.financial_info.monthly_income = Zero
  /\ ret.financial_info.monthly_expense = Zero
  /\ ret.financial_info.other_debt = Zero

\* parse_full_document has returned for the document with no text, no table
EmptyParsed ==
  op = "parse_full_document" /\ text_content = <<>> /\ tables = <<>>

(* C3, as claimed: the record of the empty document has the empty string   *)
(* in every text field, the documented default in every numeric field and  *)
(* an empty raw_text.                                                      *)
C3_EveryTextFieldEmpty ==
  EmptyParsed =>
    /\ ret.customer_info.name = <<>>
    /\ ret.customer_info.cccd = <<>>
    /\ ret.customer_info.address = <<>>
    /\ ret.customer_info.phone = <<>>
    /\ ret.loan_info.purpose = <<>>
    /\ ret.collateral_info.asset_type = <<>>
    /\ ret.collateral_info.asset_address = <<>>
    /\ ret.collateral_info.legal_docs = <<>>
    /\ EmptyNumbers
    /\ ret.raw_text = <<>>

(* C3, amended: the record of the empty document has the empty string in   *)
(* name, cccd, address, phone and asset_address, the documented defaults   *)
(* in purpose, asset_type and legal_docs, 'Tháng' in payment_frequency,    *)
(* the documented default in every numeric field and an empty raw_text.    *)
C3_EmptyDocumentDefaults ==
  EmptyParsed =>
    /\ ret.customer_info.name = <<>>
    /\ ret.customer_info.cccd = <<>>
    /\ ret.customer_info.address = <<>>
    /\ ret.customer_info.phone = <<>>
    /\ ret.loan_info.purpose = DefaultPurpose
    /\ ret.loan_info.payment_frequency = PaymentFrequency
    /\ ret.collateral_info.asset_type = DefaultAssetType
    /\ ret.collateral_info.asset_address = <<>>
    /\ ret.collateral_info.legal_docs = DefaultLegalDocs
    /\ EmptyNumbers
    /\ ret.raw_text = <<>>

C3_Witness == EmptyParsed /\ ret.loan_info.purpose = DefaultPurpose

(* C4: the loan_amount of extract_loan_info is total_need - equity exactly *)
(* when the loan amount looked up is 0 and total_need > 0, and the amount  *)
(* looked up otherwise; 1000000000 needed, 200000000 of equity and no loan *)
(* amount label give 800000000.                                            *)
C4_LoanAmountDerivation ==
  op = "extract_loan_info" =>
    \E looked_up \in {_find_number_after_keyword(Self, loan_amount_keywords)} :
      /\ (IsZero(looked_up) /\ Positive(ret.total_need))
           => ret.loan_amount = Sub(ret.total_need, ret.equity)
      /\ ~(IsZero(looked_up) /\ Positive(ret.total_need))
           => ret.loan_amount = looked_up
      /\ ( /\ ret.total_need = Num(1000000000)
           /\ ret.equity = Num(200000000)
           /\ Absent(loan_amount_keywords) )
         => ret.loan_amount = Num(800000000)

\* the example of the claim
C4_Witness ==
  /\ op = "extract_loan_info"
  /\ ret.total_need = Num(1000000000)
  /\ ret.equity = Num(200000000)
  /\ Absent(loan_amount_keywords)
  /\ ret.loan_amount = Num(800000000)

(* C5: the loan_term of extract_loan_info is the number looked up, cut to  *)
(* an integer, and 120 when that integer is 0: it is never 0.              *)
C5_LoanTermNeverZero ==
  op = "extract_loan_info" =>
    \E months \in {int(_find_number_after_keyword(Self, loan_term_keywords))} :
      /\ ret.loan_term = IF months = 0 THEN DefaultLoanTerm ELSE months
      /\ ret.loan_term # 0

(* C6: no call of an extractor changes text_content or tables, and every   *)
(* call of parse_full_document on the parser returns the same record.      *)
C6_Idempotent ==
  /\ [][text_content' = text_content /\ tables' = tables]_vars
  /\ [](\A i, j \in DOMAIN results : results[i] = results[j])

\* parse_full_document has returned twice for a document with text
C6_Witness ==
  /\ Len(results) >= 2
  /\ text_content # <<>>
  /\ results[1] = results[2]
  /\ results[2].customer_info.name # <<>>

(* C7: the record of parse_full_document is the same whatever the tables   *)
(* of the document are.                                                    *)
C7_TablesIgnored ==
  op = "parse_full_document" =>
    \A tb \in TableSets : parse_full_document(WithTables(tb)) = ret

\* a document with text and tables has been parsed
C7_Witness ==
  /\ op = "parse_full_document"
  /\ tables # <<>>
  /\ text_content # <<>>
  /\ parse_full_document(WithTables(<<>>)) = ret

====
